---- MODULE Spec2Model ----
(***************************************************************************)
(* The dns-01 challenge of challenge/dns01/dns_challenge.go: the lifecycle *)
(* calls PreSolve, Solve, CleanUp and Sequential of a Challenge, and the   *)
(* derivation of the ChallengeInfo (GetChallengeInfo, getChallengeFQDN).   *)
(*                                                                         *)
(* Strings are TLA+ strings, durations are whole seconds.  Each call runs  *)
(* in its own frame (its locals and its position); the Challenge's fields, *)
(* the environment variable and the DNS zone are shared by the calls.      *)
(***************************************************************************)
EXTENDS Integers, Sequences, FiniteSets, TLC

VARIABLES
    provider,   \* Challenge.provider, with the optional capabilities it exposes
    env,        \* the value of LEGO_DISABLE_CNAME_SUPPORT
    zone,       \* what the nameservers answer to CNAME queries
    frame,      \* per call: the operation, its position and its locals
    log         \* per call: what the call did to its collaborators (history)

vars == <<provider, env, zone, frame, log>>

(***************************************************************************)
(* Bounds of the model.                                                    *)
(***************************************************************************)
\* the longest CNAME chain a zone of the resolution specification holds
MaxChain == 51
\* the longest CNAME chain a zone of the lifecycle specification holds
MaxSolveChain == 1
\* the time the precheck calls of one Solve take altogether, in seconds
MaxCheckTime == 1
\* the largest delay a sequential provider asks for, in seconds
MaxSeqDelay == 1
\* the longest CNAME chain a zone holds while the zone changes
MaxLiveChain == 1
\* the precheck calls one Solve is followed through
MaxPreChecks == 31

(***************************************************************************)
(* Program constants.                                                      *)
(***************************************************************************)
DefaultPropagationTimeout == 60
DefaultPollingInterval == 2
\* the recursion counter's limit in getChallengeFQDN
MaxHops == 50

Calls == {"c1", "c2"}
Domains == {"example.com", "a.example.org"}
Tokens == {"tok1"}

(***************************************************************************)
(* Errors.  An error is the chain of its messages, outermost first, each   *)
(* with the domain its text names ("" when it names none); nil is <<>>.    *)
(***************************************************************************)
Nil == << >>

NewError(msg, domain) == << [msg |-> msg, domain |-> domain] >>

\* fmt.Errorf("[%s] acme: ...: %w", domain, err)
WrapError(msg, domain, err) == NewError(msg, domain) \o err

\* the text of the error names the domain somewhere along its chain
CarriesDomain(err, domain) == \E i \in 1..Len(err) : err[i].domain = domain

(***************************************************************************)
(* Names.                                                                  *)
(***************************************************************************)
Digit(i) ==
    CASE i = 0 -> "0" [] i = 1 -> "1" [] i = 2 -> "2" [] i = 3 -> "3"
      [] i = 4 -> "4" [] i = 5 -> "5" [] i = 6 -> "6" [] i = 7 -> "7"
      [] i = 8 -> "8" [] i = 9 -> "9"

RECURSIVE Decimal(_)
Decimal(i) == IF i < 10 THEN Digit(i) ELSE Decimal(i \div 10) \o Digit(i % 10)

\* fmt.Sprintf("_acme-challenge.%s.", domain)
ChallengeFQDNOf(domain) == "_acme-challenge." \o domain \o "."

\* the names the chains of the zones go through
AliasNames ==
    [i \in 1..(MaxChain + MaxSolveChain) |->
        "alias" \o Decimal(i) \o ".dns.example.net."]

\* the i-th alias of a zone's chain
Alias(i) == AliasNames[i]

(***************************************************************************)
(* The zone.  A resolver that answers by name walks, from the challenge    *)
(* FQDN of zone.root, a chain of zone.len CNAME links                      *)
(*     FQDN -> Alias(1) -> ... -> Alias(len)                               *)
(* whose last name either has no CNAME ("NoCNAME"), is answered with a     *)
(* non-success response code ("Rcode"), fails to be queried ("Fail"), or   *)
(* has a CNAME back to the name at position zone.back ("Back": a cycle,    *)
(* a self reference when back = len).  Every other name has no CNAME.      *)
(***************************************************************************)
ChainName(z, i) == IF i = 0 THEN ChallengeFQDNOf(z.root) ELSE Alias(i)

Ends == {"NoCNAME", "Rcode", "Fail"}

ZonesOf(roots, maxLen) ==
    { [root |-> r, len |-> k, end |-> e, back |-> 0] :
          r \in roots, k \in 0..maxLen, e \in Ends }
    \cup
    { [root |-> r, len |-> k, end |-> "Back", back |-> b] :
          r \in roots, k \in 0..maxLen, b \in 0..maxLen }

\* the zones whose cycle, if any, goes back to a name of the chain: to its
\* root, to its first alias, to the name before the last, or to the last
Zones(roots, maxLen) ==
    { z \in ZonesOf(roots, maxLen) :
          z.end = "Back" => z.back \in ({0, 1, z.len - 1, z.len} \cap 0..z.len) }

\* the position of a name in the chain, -1 for a name outside of it
PositionOf(z, name) ==
    IF \E i \in 0..z.len : ChainName(z, i) = name
    THEN CHOOSE i \in 0..z.len : ChainName(z, i) = name
    ELSE -1

RcodeSuccess == "NOERROR"
RcodeNameError == "NXDOMAIN"

\* dnsQuery(fqdn, dns.TypeCNAME, recursiveNameservers, true): the result
\* (r, err), r with its response code and the targets of its CNAME answers
dnsQuery(z, fqdn) ==
    LET i == PositionOf(z, fqdn) IN
    IF i = -1 THEN [err |-> FALSE, Rcode |-> RcodeSuccess, Answer |-> << >>]
    ELSE IF i < z.len
    THEN [err |-> FALSE, Rcode |-> RcodeSuccess, Answer |-> << ChainName(z, i + 1) >>]
    ELSE CASE z.end = "NoCNAME" ->
                [err |-> FALSE, Rcode |-> RcodeSuccess, Answer |-> << >>]
           [] z.end = "Rcode" ->
                [err |-> FALSE, Rcode |-> RcodeNameError, Answer |-> << >>]
           [] z.end = "Fail" ->
                [err |-> TRUE, Rcode |-> RcodeSuccess, Answer |-> << >>]
           [] z.end = "Back" ->
                [err |-> FALSE, Rcode |-> RcodeSuccess,
                 Answer |-> << ChainName(z, z.back) >>]

\* updateDomainWithCName(r, fqdn): the CNAME target of the answer, fqdn
\* itself when the answer holds no CNAME
updateDomainWithCName(r, fqdn) ==
    IF r.Answer = << >> THEN fqdn ELSE r.Answer[1]

(***************************************************************************)
(* The inputs of a call.                                                   *)
(***************************************************************************)
\* a faulty DNS01: the type of another challenge is looked up
ChallengeTypeMistaken == "http-01"

DNS01 == "dns-01"
HTTP01 == "http-01"

NewChallengeOf(type, token) ==
    [Type |-> type, Token |-> token, KeyAuthorization |-> ""]

\* acme.Authorization: the identifier and the challenges the server offers
Authorizations ==
    { [Identifier |-> d, Challenges |-> chs] :
          d \in Domains,
          chs \in { << NewChallengeOf(HTTP01, t) >> : t \in Tokens }
                  \cup
                  { << NewChallengeOf(HTTP01, t), NewChallengeOf("dns-01", t) >> :
                        t \in Tokens } }

\* challenge.GetTargetedDomain(authz)
GetTargetedDomain(authz) == authz.Identifier

\* challenge.FindChallenge(chlgType, authz): (chlng, err)
FindChallenge(chlgType, authz) ==
    LET found == { i \in 1..Len(authz.Challenges) :
                       authz.Challenges[i].Type = chlgType } IN
    IF found = {}
    THEN [chlng |-> NewChallengeOf("", ""),
          err |-> NewError("acme: unable to find challenge " \o chlgType,
                           GetTargetedDomain(authz))]
    ELSE [chlng |-> authz.Challenges[CHOOSE i \in found : \A j \in found : i <= j],
          err |-> Nil]

\* c.core.GetKeyAuthorization(token): the token bound to the account key,
\* or the error of the core
KeyAuthorizationError == NewError("acme: key authorization failed", "")

KeyAuthorizationOf(token) == token \o ".thumbprint"

GetKeyAuthorizationResults(token) ==
    { [keyAuth |-> KeyAuthorizationOf(token), err |-> Nil],
      [keyAuth |-> "", err |-> KeyAuthorizationError] }

\* the Providers: nil, or a challenge.Provider that may also implement
\* challenge.ProviderTimeout (Timeout() = <<timeout, interval>>) and
\* sequential (Sequential() = delay); << >> stands for a missing capability
NilProvider == [nil |-> TRUE, Timeout |-> << >>, Sequential |-> << >>]

Timeouts == { << 3, 1 >>, << 5, 2 >> }

Providers ==
    { NilProvider }
    \cup
    { [nil |-> FALSE, Timeout |-> t, Sequential |-> s] :
          t \in { << >> } \cup Timeouts,
          s \in { << >> } \cup { << d >> : d \in 0..MaxSeqDelay } }

PresentError == NewError("provider: present failed", "")
CleanUpError == NewError("provider: cleanup failed", "")
PreCheckError == NewError("precheck: query failed", "")
ValidateError == NewError("acme: validation rejected", "")

\* the values of LEGO_DISABLE_CNAME_SUPPORT: unset, set to a boolean, set
\* to something else
EnvValues == {"", "true", "false", "yes"}

\* strconv.ParseBool(str): (value, err)
ParseBool(str) ==
    IF str \in {"1", "t", "T", "TRUE", "true", "True"}
    THEN [value |-> TRUE, err |-> FALSE]
    ELSE IF str \in {"0", "f", "F", "FALSE", "false", "False"}
    THEN [value |-> FALSE, err |-> FALSE]
    ELSE [value |-> FALSE, err |-> TRUE]

(***************************************************************************)
(* Frames.                                                                 *)
(***************************************************************************)
NoInfo == [Value |-> "", FQDN |-> "", EffectiveFQDN |-> ""]

NewFrame(op, authz) ==
    [op |-> op, pc |-> "start", authz |-> authz,
     domain |-> "", chlng |-> NewChallengeOf("", ""), keyAuth |-> "",
     info |-> NoInfo, fqdn |-> "", limit |-> 0,
     timeout |-> 0, interval |-> 0, now |-> 0, timeUp |-> 0,
     lastErr |-> Nil, waitErr |-> Nil, err |-> Nil, ret |-> << >>, panic |-> FALSE,
     recorded |-> FALSE]

\* a call of GetChallengeInfo(authz.Identifier.Value, keyAuth)
InfoCallOf(authz, keyAuth) ==
    [NewFrame("GetChallengeInfo", authz) EXCEPT !.keyAuth = keyAuth]

\* a call that is not made
NoCall == [NewFrame("none", CHOOSE a \in Authorizations : TRUE) EXCEPT !.pc = "off"]

NewLog ==
    [sleeps |-> 0, slept |-> 0, preCheck |-> 0, validate |-> 0, present |-> 0,
     cleanUp |-> 0, keyAuth |-> 0, queries |-> 0, hops |-> 0,
     checkTime |-> 0, lastDur |-> 0, satisfied |-> 0, polled |-> "",
     preCheckArgs |-> {}, validateArgs |-> {},
     derived |-> 0, answer |-> Nil, answers |-> << >>]

Done(c) == frame[c].pc = "done"

(***************************************************************************)
(* GetChallengeInfo and getChallengeFQDN.                                  *)
(***************************************************************************)
\* base64.RawURLEncoding.EncodeToString(sha256.Sum256([]byte(keyAuth)))
Sha256Base64(keyAuth) == "b64url(sha256(" \o keyAuth \o "))"

\* a faulty FollowCNAME: the negation is forgotten
FollowCNAMEWhenDisabled(value) == ParseBool(value).value

\* !ok, where ok, _ := strconv.ParseBool(os.Getenv("LEGO_DISABLE_CNAME_SUPPORT"))
FollowCNAME(value) == ~ParseBool(value).value

\* a faulty HopsLeft: one turn too many
HopsLeftOffByOne(limit) == limit <= MaxHops

\* the condition of the loop of getChallengeFQDN
HopsLeft(limit) == limit < MaxHops

\* a faulty NoMoreCNAME: the test of the response code is inverted
NoMoreCNAMEInverted(r) == r.err \/ r.Rcode = RcodeSuccess

\* err != nil || r.Rcode != dns.RcodeSuccess
NoMoreCNAME(r) == r.err \/ r.Rcode # RcodeSuccess

\* a faulty SameName: a self reference is not detected
NeverSameName(cname, fqdn) == FALSE

\* cname == fqdn
SameName(cname, fqdn) == cname = fqdn

\* where a call goes on once its ChallengeInfo is derived
AfterInfo(op) == IF op = "Solve" THEN "timeouts" ELSE "done"

\* a faulty InfoDerived: the resolved name is put into both name fields
InfoDerivedIntoBothNames(f, fqdn) ==
    [f EXCEPT !.info.EffectiveFQDN = fqdn,
              !.info.FQDN = fqdn,
              !.pc = AfterInfo(f.op),
              !.ret = IF f.op = "GetChallengeInfo"
                      THEN [f.info EXCEPT !.EffectiveFQDN = fqdn, !.FQDN = fqdn]
                      ELSE f.ret]

\* the return of getChallengeFQDN(domain, true) into the ChallengeInfo
InfoDerived(f, fqdn) ==
    [f EXCEPT !.info.EffectiveFQDN = fqdn,
              !.pc = AfterInfo(f.op),
              !.ret = IF f.op = "GetChallengeInfo"
                      THEN [f.info EXCEPT !.EffectiveFQDN = fqdn]
                      ELSE f.ret]

\* GetChallengeInfo(domain, keyAuth) up to the loop of getChallengeFQDN
InfoBegin(f, domain, keyAuth) ==
    LET fqdn == ChallengeFQDNOf(domain)
        g == [f EXCEPT !.info = [Value |-> Sha256Base64(keyAuth),
                                 FQDN |-> fqdn,
                                 EffectiveFQDN |-> ""],
                       !.fqdn = fqdn,
                       !.limit = 0] IN
    IF FollowCNAME(env)
    THEN [g EXCEPT !.pc = "resolve"]
    ELSE InfoDerived(g, fqdn)

\* a call of GetChallengeInfo(domain, keyAuth) by itself
GetChallengeInfo(c) ==
    /\ frame[c].op = "GetChallengeInfo"
    /\ frame[c].pc = "start"
    /\ frame' = [frame EXCEPT
                    ![c] = InfoBegin(@, frame[c].authz.Identifier,
                                     frame[c].keyAuth)]
    /\ log' = [log EXCEPT ![c].derived = @ + 1]
    /\ UNCHANGED <<provider, env, zone>>

\* one turn of the loop of getChallengeFQDN, or its exit
ResolveStep(c) ==
    LET f == frame[c]
        r == dnsQuery(zone, f.fqdn)
        cname == updateDomainWithCName(r, f.fqdn) IN
    /\ f.pc = "resolve"
    /\ IF ~HopsLeft(f.limit)
       THEN /\ frame' = [frame EXCEPT ![c] = InfoDerived(f, f.fqdn)]
            /\ log' = log
       ELSE IF NoMoreCNAME(r) \/ SameName(cname, f.fqdn)
       THEN /\ frame' = [frame EXCEPT ![c] = InfoDerived(f, f.fqdn)]
            /\ log' = [log EXCEPT ![c].queries = @ + 1]
       ELSE /\ frame' = [frame EXCEPT ![c].fqdn = cname, ![c].limit = @ + 1]
            /\ log' = [log EXCEPT ![c].queries = @ + 1, ![c].hops = @ + 1]
    /\ UNCHANGED <<provider, env, zone>>

(***************************************************************************)
(* The resolution by itself: one call of GetChallengeInfo, for every zone  *)
(* of a chain of at most MaxChain links.                                   *)
(***************************************************************************)
InitResolve ==
    /\ provider = NilProvider
    /\ env \in EnvValues
    /\ \E a \in { a \in Authorizations : Len(a.Challenges) = 2 }, t \in Tokens :
          /\ frame = [c \in Calls |->
                         IF c = "c1" THEN InfoCallOf(a, KeyAuthorizationOf(t))
                         ELSE NoCall]
          /\ zone \in Zones({a.Identifier}, MaxChain)
    /\ log = [c \in Calls |-> NewLog]

NextResolve == \E c \in Calls : GetChallengeInfo(c) \/ ResolveStep(c)

SpecResolve == InitResolve /\ [][NextResolve]_vars

\* a call that can take its next step takes it: a query returns, with an
\* answer or with an error
FairSpecResolve == SpecResolve /\ WF_vars(NextResolve)

(***************************************************************************)
(* The lifecycle calls.                                                    *)
(***************************************************************************)
\* return err
Return(f, err) == [f EXCEPT !.pc = "done", !.err = err]

\* a faulty PresentResult: the error is returned as it is
PresentResultUnwrapped(domain, err) == err

\* what PreSolve returns after c.provider.Present returned err
PresentResult(domain, err) ==
    IF err # Nil
    THEN WrapError("acme: error presenting token", domain, err)
    ELSE Nil

\* a faulty PreSolveReturn: once the record is presented, PreSolve goes on
\* to wait for its propagation
PreSolveWaitsForPropagation(f, domain, err) ==
    IF err # Nil
    THEN Return(f, PresentResult(domain, err))
    ELSE [f EXCEPT !.domain = domain, !.pc = "timeouts"]

\* the end of PreSolve, after c.provider.Present returned err
PreSolveReturn(f, domain, err) == Return(f, PresentResult(domain, err))

PreSolve(c) ==
    LET f == frame[c]
        domain == GetTargetedDomain(f.authz)
        found == FindChallenge(DNS01, f.authz) IN
    /\ f.op = "PreSolve"
    /\ f.pc = "start"
    /\ IF found.err # Nil
       THEN /\ frame' = [frame EXCEPT ![c] = Return(f, found.err)]
            /\ log' = log
       ELSE IF provider.nil
       THEN /\ frame' = [frame EXCEPT ![c] =
                            Return(f, NewError("acme: no DNS Provider configured",
                                               domain))]
            /\ log' = log
       ELSE \E ka \in GetKeyAuthorizationResults(found.chlng.Token) :
              IF ka.err # Nil
              THEN /\ frame' = [frame EXCEPT ![c] = Return(f, ka.err)]
                   /\ log' = [log EXCEPT ![c].keyAuth = @ + 1]
              ELSE \E err \in {Nil, PresentError} :
                     /\ frame' = [frame EXCEPT ![c] = PreSolveReturn(f, domain, err)]
                     /\ log' = [log EXCEPT ![c].keyAuth = @ + 1,
                                           ![c].present = @ + 1,
                                           ![c].answer = err]
    /\ UNCHANGED <<provider, env, zone>>

\* a faulty CleanUpResult: the error of the provider is dropped
CleanUpResultDropped(domain, err) == Nil

\* what CleanUp returns after c.provider.CleanUp returned err
CleanUpResult(domain, err) == err

CleanUp(c) ==
    LET f == frame[c]
        domain == GetTargetedDomain(f.authz)
        found == FindChallenge(DNS01, f.authz) IN
    /\ f.op = "CleanUp"
    /\ f.pc = "start"
    /\ IF found.err # Nil
       THEN /\ frame' = [frame EXCEPT ![c] = Return(f, found.err)]
            /\ log' = log
       ELSE \E ka \in GetKeyAuthorizationResults(found.chlng.Token) :
              IF ka.err # Nil
              THEN /\ frame' = [frame EXCEPT ![c] = Return(f, ka.err)]
                   /\ log' = [log EXCEPT ![c].keyAuth = @ + 1]
              ELSE IF provider.nil
              THEN \* a method call on a nil interface value
                   /\ frame' = [frame EXCEPT ![c].pc = "done", ![c].panic = TRUE]
                   /\ log' = [log EXCEPT ![c].keyAuth = @ + 1]
              ELSE \E err \in {Nil, CleanUpError} :
                     /\ frame' = [frame EXCEPT ![c] =
                                     Return(f, CleanUpResult(domain, err))]
                     /\ log' = [log EXCEPT ![c].keyAuth = @ + 1,
                                           ![c].cleanUp = @ + 1,
                                           ![c].answer = err]
    /\ UNCHANGED <<provider, env, zone>>

\* a faulty SequentialResult: the delay of the provider is dropped
SequentialResultNoDelay(p) ==
    IF ~p.nil /\ p.Sequential # << >> THEN << TRUE, 0 >> ELSE << FALSE, 0 >>

\* Challenge.Sequential(): (bool, time.Duration)
SequentialResult(p) ==
    IF ~p.nil /\ p.Sequential # << >>
    THEN << TRUE, p.Sequential[1] >>
    ELSE << FALSE, 0 >>

Sequential(c) ==
    /\ frame[c].op = "Sequential"
    /\ frame[c].pc = "start"
    /\ frame' = [frame EXCEPT ![c].pc = "done", ![c].ret = SequentialResult(provider)]
    /\ UNCHANGED <<provider, env, zone, log>>

(***************************************************************************)
(* Solve.                                                                  *)
(***************************************************************************)
\* Solve up to the loop of getChallengeFQDN
SolveEnter(c) ==
    LET f == frame[c]
        domain == GetTargetedDomain(f.authz)
        found == FindChallenge(DNS01, f.authz) IN
    /\ f.op = "Solve"
    /\ f.pc = "start"
    /\ IF found.err # Nil
       THEN /\ frame' = [frame EXCEPT ![c] = Return(f, found.err)]
            /\ log' = log
       ELSE \E ka \in GetKeyAuthorizationResults(found.chlng.Token) :
              /\ log' = [log EXCEPT ![c].keyAuth = @ + 1,
                                    ![c].derived = IF ka.err # Nil THEN @ ELSE @ + 1]
              /\ IF ka.err # Nil
                 THEN frame' = [frame EXCEPT ![c] = Return(f, ka.err)]
                 ELSE frame' = [frame EXCEPT ![c] =
                                   InfoBegin([f EXCEPT !.domain = domain,
                                                       !.chlng = found.chlng,
                                                       !.keyAuth = ka.keyAuth],
                                             f.authz.Identifier, ka.keyAuth)]
    /\ UNCHANGED <<provider, env, zone>>

\* a faulty PollingBudget: the interval is lost
PollingBudgetWithoutInterval(p) ==
    IF ~p.nil /\ p.Timeout # << >>
    THEN << p.Timeout[1], 0 >>
    ELSE << DefaultPropagationTimeout, 0 >>

\* a faulty PollingBudget: the capability of the provider is not looked at
PollingBudgetDefaultsOnly(p) ==
    << DefaultPropagationTimeout, DefaultPollingInterval >>

\* the (timeout, interval) Solve polls with
PollingBudget(p) ==
    IF ~p.nil /\ p.Timeout # << >>
    THEN p.Timeout
    ELSE << DefaultPropagationTimeout, DefaultPollingInterval >>

\* a faulty FirstSleep: no sleep before wait.For
NoFirstSleep(interval) == 0

\* how long the sleep before wait.For lasts
FirstSleep(interval) == interval

\* the entry of wait.For(msg, timeout, interval, f): the deadline is set
WaitForBegin(f) ==
    [f EXCEPT !.timeUp = f.now + f.timeout, !.lastErr = Nil, !.pc = "select"]

\* the choice of the polling budget, the sleep, and the entry of wait.For
SolveSleep(c) ==
    LET f == frame[c]
        budget == PollingBudget(provider) IN
    /\ f.pc = "timeouts"
    /\ frame' = [frame EXCEPT ![c] =
                    WaitForBegin([f EXCEPT !.timeout = budget[1],
                                           !.interval = budget[2],
                                           !.now = @ + FirstSleep(budget[2])])]
    /\ log' = [log EXCEPT ![c].sleeps = @ + 1,
                          ![c].slept = @ + FirstSleep(budget[2])]
    /\ UNCHANGED <<provider, env, zone>>

\* the error of wait.For when the time limit is reached
TimeLimitError(msg, lastErr) ==
    IF lastErr = Nil
    THEN NewError(msg \o ": time limit exceeded", "")
    ELSE WrapError(msg \o ": time limit exceeded: last error", "", lastErr)

\* a faulty PollingFailed: the error is not looked at, Solve goes on
PollingFailureIgnored(f, err) == [f EXCEPT !.waitErr = err, !.pc = "validate"]

\* a faulty PollingFailed: Solve returns, without the error
PollingFailureSwallowed(f, err) == Return([f EXCEPT !.waitErr = err], Nil)

\* what Solve does with the error of wait.For
PollingFailed(f, err) == Return([f EXCEPT !.waitErr = err], err)

\* wait.For, at the top of its loop: the time limit is reached, or not yet
WaitForSelect(c) ==
    LET f == frame[c] IN
    /\ f.pc = "select"
    /\ IF f.now >= f.timeUp
       THEN /\ frame' = [frame EXCEPT ![c] =
                            PollingFailed(f, TimeLimitError("propagation", f.lastErr))]
            /\ log' = [log EXCEPT ![c].polled = "failed"]
       ELSE /\ frame' = [frame EXCEPT ![c].pc = "call"]
            /\ log' = log
    /\ UNCHANGED <<provider, env, zone>>

\* the name the loop of getChallengeFQDN ends at when all its queries are
\* answered from the zone z, from fqdn on
RECURSIVE FollowFrom(_, _, _)
FollowFrom(z, fqdn, limit) ==
    LET r == dnsQuery(z, fqdn)
        cname == updateDomainWithCName(r, fqdn) IN
    IF ~HopsLeft(limit) \/ NoMoreCNAME(r) \/ SameName(cname, fqdn)
    THEN fqdn
    ELSE FollowFrom(z, cname, limit + 1)

\* a faulty PreCheckArgs: the domain and the ChallengeInfo are kept in one
\* place for all the calls, and hold what the first call put there
PreCheckArgsOfFirstCall(f) ==
    << frame["c1"].domain, frame["c1"].info.EffectiveFQDN, frame["c1"].info.Value >>

\* a faulty PreCheckArgs: the effective name is derived anew at each call
PreCheckArgsDerivedAnew(f) ==
    << f.domain,
       IF FollowCNAME(env) THEN FollowFrom(zone, f.info.FQDN, 0) ELSE f.info.FQDN,
       f.info.Value >>

\* the arguments of c.preCheck.call
PreCheckArgs(f) == << f.domain, f.info.EffectiveFQDN, f.info.Value >>

\* a faulty CallbackResult: an error of the precheck stops the polling
CallbackStopsOnError(stop, errP) == << stop \/ errP # Nil, errP >>

\* what the function Solve gives to wait.For returns, after the precheck
\* returned (stop, errP)
CallbackResult(stop, errP) == << stop, errP >>

\* wait.For calls the function Solve gave it, which calls the precheck; the
\* call takes d seconds and returns (ok, errP)
PreCheckCall(c) ==
    LET f == frame[c] IN
    /\ f.pc = "call"
    /\ log[c].preCheck < MaxPreChecks
    /\ \E ok \in BOOLEAN, errP \in {Nil, PreCheckError},
          d \in 0..(MaxCheckTime - log[c].checkTime) :
          LET res == CallbackResult(ok, errP)
              stop == res[1] IN
          /\ log' = [log EXCEPT
                        ![c].preCheck = @ + 1,
                        ![c].preCheckArgs = @ \cup {PreCheckArgs(f)},
                        ![c].lastDur = d,
                        ![c].checkTime = @ + d,
                        ![c].satisfied = IF ok THEN log[c].preCheck + 1 ELSE @,
                        ![c].polled = IF stop THEN "ok" ELSE @,
                        ![c].answers = IF f.recorded
                                       THEN Append(@, [ok |-> ok, err |-> errP, d |-> d])
                                       ELSE @]
          /\ frame' = [frame EXCEPT
                          ![c].now = @ + d,
                          ![c].lastErr = IF ~stop /\ res[2] # Nil THEN res[2] ELSE @,
                          ![c].pc = IF stop THEN "validate" ELSE "sleep"]
    /\ UNCHANGED <<provider, env, zone>>

\* wait.For sleeps before its next turn
WaitForSleep(c) ==
    LET f == frame[c] IN
    /\ f.pc = "sleep"
    /\ frame' = [frame EXCEPT ![c].now = @ + f.interval, ![c].pc = "select"]
    /\ log' = [log EXCEPT ![c].sleeps = @ + 1, ![c].slept = @ + f.interval]
    /\ UNCHANGED <<provider, env, zone>>

\* a faulty ChallengeForValidation: the key authorization is not attached
ChallengeWithoutKeyAuthorization(chlng, keyAuth) == chlng

\* chlng.KeyAuthorization = keyAuth
ChallengeForValidation(chlng, keyAuth) ==
    [chlng EXCEPT !.KeyAuthorization = keyAuth]

\* the polling succeeded: the key authorization is attached, the validator
\* is called and its result returned
SolveValidate(c) ==
    LET f == frame[c]
        chlng == ChallengeForValidation(f.chlng, f.keyAuth) IN
    /\ f.pc = "validate"
    /\ \E err \in {Nil, ValidateError} :
          /\ frame' = [frame EXCEPT ![c] = Return([f EXCEPT !.chlng = chlng], err)]
          /\ log' = [log EXCEPT ![c].validate = @ + 1,
                                ![c].validateArgs = @ \cup {<< f.domain, chlng >>},
                                ![c].answer = err]
    /\ UNCHANGED <<provider, env, zone>>

(***************************************************************************)
(* The lifecycle: one call, of any operation, on any Challenge.            *)
(***************************************************************************)
Operations == {"PreSolve", "Solve", "CleanUp", "Sequential", "GetChallengeInfo"}

Init ==
    /\ provider \in Providers
    /\ env \in {"", "true"}
    /\ \E a \in Authorizations, op \in Operations, t \in Tokens :
          /\ frame = [c \in Calls |->
                         IF c # "c1" THEN NoCall
                         ELSE IF op = "GetChallengeInfo"
                         THEN InfoCallOf(a, KeyAuthorizationOf(t))
                         ELSE NewFrame(op, a)]
          /\ zone \in Zones({a.Identifier}, MaxSolveChain)
    /\ log = [c \in Calls |-> NewLog]

Next ==
    \E c \in Calls :
        \/ PreSolve(c)
        \/ CleanUp(c)
        \/ Sequential(c)
        \/ GetChallengeInfo(c)
        \/ SolveEnter(c)
        \/ ResolveStep(c)
        \/ SolveSleep(c)
        \/ WaitForSelect(c)
        \/ PreCheckCall(c)
        \/ WaitForSleep(c)
        \/ SolveValidate(c)

Spec == Init /\ [][Next]_vars

(***************************************************************************)
(* A Solve call and a call of GetChallengeInfo while the world changes:    *)
(* the zone is edited and the environment variable is set or unset between *)
(* any two steps of the calls.                                             *)
(***************************************************************************)
\* the key authorizations GetChallengeInfo is called with
KeyAuthorizations == { KeyAuthorizationOf(t) : t \in {"tok1", "tok2"} }

\* the zones the records of a domain go through: a chain of CNAME records
\* from its challenge name, shorter or longer
LiveZones(root) == { z \in Zones({root}, MaxLiveChain) : z.end = "NoCNAME" }

\* the providers with a polling budget of their own
LiveProviders ==
    { p \in Providers : ~p.nil /\ p.Timeout # << >> /\ p.Sequential = << >> }

\* the records of the zone are edited
ZoneChange ==
    /\ zone' \in LiveZones(zone.root) \ {zone}
    /\ UNCHANGED <<provider, env, frame, log>>

\* os.Setenv, os.Unsetenv of LEGO_DISABLE_CNAME_SUPPORT
EnvChange ==
    /\ env' \in {"", "true"} \ {env}
    /\ UNCHANGED <<provider, zone, frame, log>>

InitLive ==
    /\ provider \in LiveProviders
    /\ env \in {"", "true"}
    /\ \E a1 \in { a \in Authorizations : Len(a.Challenges) = 2 },
          a2 \in { a \in Authorizations : Len(a.Challenges) = 2 },
          ka \in KeyAuthorizations :
          /\ zone \in LiveZones(a1.Identifier)
          /\ frame = [c \in Calls |->
                         IF c = "c1" THEN NewFrame("Solve", a1) ELSE InfoCallOf(a2, ka)]
    /\ log = [c \in Calls |-> NewLog]

\* a step of a call
NextCall ==
    \E c \in Calls :
        \/ GetChallengeInfo(c)
        \/ SolveEnter(c)
        \/ ResolveStep(c)
        \/ SolveSleep(c)
        \/ WaitForSelect(c)
        \/ PreCheckCall(c)
        \/ WaitForSleep(c)
        \/ SolveValidate(c)

NextLive == NextCall \/ ZoneChange \/ EnvChange

SpecLive == InitLive /\ [][NextLive]_vars

\* a call that can take its next step takes it: the precheck, the validator
\* and the resolver return, a sleep ends
FairSpecLive == SpecLive /\ WF_vars(NextCall)

(***************************************************************************)
(* Two Solve calls at once on one Challenge, for two domains: their steps  *)
(* interleave in any order.  What the precheck answered to each call is    *)
(* kept in its log.                                                        *)
(***************************************************************************)
InitConc ==
    /\ provider \in LiveProviders
    /\ env \in {"", "true"}
    /\ \E a1 \in { a \in Authorizations : Len(a.Challenges) = 2 },
          a2 \in { a \in Authorizations : Len(a.Challenges) = 2 } :
          /\ a1.Identifier = "example.com"
          /\ a2.Identifier # a1.Identifier
          /\ zone \in LiveZones(a1.Identifier)
          /\ frame = [c \in Calls |->
                         [NewFrame("Solve", IF c = "c1" THEN a1 ELSE a2)
                            EXCEPT !.recorded = TRUE]]
    /\ log = [c \in Calls |-> NewLog]

NextConc ==
    \E c \in Calls :
        \/ SolveEnter(c)
        \/ ResolveStep(c)
        \/ SolveSleep(c)
        \/ WaitForSelect(c)
        \/ PreCheckCall(c)
        \/ WaitForSleep(c)
        \/ SolveValidate(c)

SpecConc == InitConc /\ [][NextConc]_vars

(***************************************************************************)
(* Properties.                                                             *)
(***************************************************************************)
SolveCalls == { c \in Calls : frame[c].op = "Solve" }
InfoCalls == { c \in Calls : frame[c].op = "GetChallengeInfo" }

\* the CNAME following is disabled by the environment variable
Disabled == ParseBool(env).value

\* the position in the chain of the zone reached from its root by following
\* n CNAME answers, -1 when the zone has no n answers to follow
PositionAfter(z, n) ==
    IF n <= z.len THEN n
    ELSE IF z.end = "Back" THEN z.back + ((n - z.len - 1) % (z.len - z.back + 1))
    ELSE -1

\* the name reached from the root by following n CNAME answers
NameAfter(z, n) ==
    IF PositionAfter(z, n) = -1 THEN "" ELSE ChainName(z, PositionAfter(z, n))

\* C1: when the polling of a Solve call has ended in failure, the call has
\* returned the error of the polling, and the validator was not invoked in
\* that call (and is never invoked later in it).
C1_NoValidationAfterPollingFailure ==
    \A c \in SolveCalls :
        log[c].polled = "failed" =>
            /\ Done(c)
            /\ frame[c].waitErr # Nil
            /\ frame[c].err = frame[c].waitErr
            /\ log[c].validate = 0
            /\ log[c].validateArgs = {}

C1_Witness ==
    \E c \in SolveCalls :
        /\ log[c].polled = "failed"
        /\ Done(c)
        /\ frame[c].lastErr # Nil
        /\ log[c].preCheck > 1

\* the resolution never issues more than 50 queries nor follows more than
\* 50 CNAME answers, and the EffectiveFQDN it returns is the name reached
\* from FQDN by following the CNAME answers it followed (FQDN for none)
ResolutionBounded ==
    \A c \in InfoCalls :
        /\ log[c].queries <= MaxHops
        /\ log[c].hops <= log[c].queries
        /\ Done(c) =>
              /\ frame[c].ret.FQDN = ChallengeFQDNOf(frame[c].authz.Identifier)
              /\ frame[c].ret.EffectiveFQDN = NameAfter(zone, log[c].hops)

\* C2: for every resolver behaviour the resolution of FQDN terminates, with
\* at most 50 queries issued, and EffectiveFQDN is FQDN or a name reached
\* from FQDN by following at most 50 CNAME answers.
C2_ResolutionTerminatesWithinBound ==
    /\ []ResolutionBounded
    /\ <>(\A c \in InfoCalls : Done(c))

C2_Witness ==
    \E c \in InfoCalls :
        /\ Done(c)
        /\ log[c].hops = MaxHops
        /\ zone.end = "Back"
        /\ frame[c].ret.EffectiveFQDN # frame[c].ret.FQDN

\* C3 as stated: a chain of 50 or more links, or a cycle of any length (a
\* name whose CNAME is itself included), ends after exactly 50 hops.
C3_AnyCycleTakesFiftyHops ==
    \A c \in InfoCalls :
        (Done(c) /\ ~Disabled /\ (zone.len >= MaxHops \/ zone.end = "Back"))
            => log[c].hops = MaxHops

\* C3, amended: a chain of 50 or more links, or a cycle through two or more
\* names, ends after exactly 50 hops (and 50 queries); a name whose CNAME
\* is itself ends the resolution at that name.
C3_LongChainOrProperCycleTakesFiftyHops ==
    \A c \in InfoCalls :
        (Done(c) /\ ~Disabled) =>
            /\ (zone.len >= MaxHops \/ (zone.end = "Back" /\ zone.back < zone.len))
                  => (log[c].hops = MaxHops /\ log[c].queries = MaxHops)
            /\ (zone.end = "Back" /\ zone.back = zone.len /\ zone.len < MaxHops)
                  => /\ log[c].hops = zone.len
                     /\ log[c].queries = zone.len + 1
                     /\ frame[c].ret.EffectiveFQDN = ChainName(zone, zone.len)

C3_Witness ==
    \E c \in InfoCalls :
        /\ Done(c)
        /\ ~Disabled
        /\ zone.end = "Back"
        /\ zone.back < zone.len
        /\ zone.len < MaxHops
        /\ log[c].hops = MaxHops

\* C4: with a chain of k < 50 links whose last name has no CNAME answer,
\* EffectiveFQDN is the last name of the chain, for every k.
C4_ShortChainEndsAtTerminalName ==
    \A c \in InfoCalls :
        (Done(c) /\ ~Disabled /\ zone.end = "NoCNAME" /\ zone.len < MaxHops)
            => /\ frame[c].ret.EffectiveFQDN = ChainName(zone, zone.len)
               /\ log[c].hops = zone.len

C4_Witness ==
    \E c \in InfoCalls :
        /\ Done(c)
        /\ ~Disabled
        /\ zone.end = "NoCNAME"
        /\ zone.len = MaxHops - 1
        /\ frame[c].ret.EffectiveFQDN = Alias(MaxHops - 1)

\* C5: with the CNAME following disabled by the environment variable, the
\* EffectiveFQDN of the ChallengeInfo is its FQDN whatever the resolver
\* would answer, and the resolver is not queried.
C5_DisabledMeansEffectiveIsFQDN ==
    \A c \in InfoCalls :
        (Done(c) /\ Disabled)
            => /\ frame[c].ret.EffectiveFQDN = frame[c].ret.FQDN
               /\ frame[c].ret.FQDN = ChallengeFQDNOf(frame[c].authz.Identifier)
               /\ log[c].queries = 0

C5_Witness ==
    \E c \in InfoCalls :
        /\ Done(c)
        /\ Disabled
        /\ zone.len > 0
        /\ frame[c].ret.EffectiveFQDN = ChallengeFQDNOf(frame[c].authz.Identifier)

\* C6: in the polling of Solve a sleep of one interval comes before the
\* first precheck call and between every two consecutive calls, so that a
\* precheck that first reports satisfied on its N-th call ends the polling
\* in success after exactly N sleeps of one interval and N precheck calls;
\* and, the calls taking no time, the time limit is not reached before the
\* N-th call when N * interval < timeout.
C6_SleepBeforeEveryCheck ==
    \A c \in SolveCalls :
        /\ log[c].slept = log[c].sleeps * frame[c].interval
        /\ frame[c].pc = "call" => log[c].sleeps = log[c].preCheck + 1
        /\ frame[c].pc \in {"select", "sleep"} =>
              log[c].sleeps \in {log[c].preCheck, log[c].preCheck + 1}
        /\ log[c].polled = "ok" =>
              /\ log[c].satisfied = log[c].preCheck
              /\ log[c].sleeps = log[c].satisfied
              /\ log[c].slept = log[c].satisfied * frame[c].interval
              /\ log[c].checkTime = 0 => frame[c].now = log[c].satisfied * frame[c].interval
              /\ frame[c].waitErr = Nil
        /\ (log[c].polled = "failed" /\ log[c].checkTime = 0) =>
              /\ log[c].preCheck * frame[c].interval >= frame[c].timeout
              /\ log[c].satisfied = 0

C6_Witness ==
    \E c \in SolveCalls :
        /\ log[c].polled = "ok"
        /\ log[c].satisfied = 3
        /\ log[c].sleeps = 3
        /\ 3 * frame[c].interval < frame[c].timeout
        /\ frame[c].pc = "validate"

\* C7 as stated: with a precheck that always reports unsatisfied (and takes
\* no time) the polling returns a timeout error, and the time elapsed since
\* its start, the sleep before the first check included, is within one
\* interval of the timeout and at most the timeout.
C7_TimeoutWithinBudget ==
    \A c \in SolveCalls :
        (log[c].polled = "failed" /\ log[c].checkTime = 0) =>
            /\ frame[c].err = TimeLimitError("propagation", frame[c].lastErr)
            /\ frame[c].now >= frame[c].timeout - frame[c].interval
            /\ frame[c].now <= frame[c].timeout + frame[c].interval
            /\ frame[c].now <= frame[c].timeout

\* C7, amended: with a precheck that always reports unsatisfied the polling
\* returns a timeout error, never success; the deadline runs from the end
\* of the sleep before the first check, so that the time elapsed since the
\* start of that sleep is at least timeout + interval, and less than
\* timeout + 2 * interval + the duration of the last precheck call.
C7_TimeoutAfterFirstSleepPlusBudget ==
    \A c \in SolveCalls :
        /\ (Done(c) /\ log[c].preCheck > 0 /\ log[c].satisfied = 0) =>
              /\ log[c].polled = "failed"
              /\ frame[c].err # Nil
        /\ log[c].polled = "failed" =>
              /\ log[c].satisfied = 0
              /\ log[c].preCheck > 0
              /\ frame[c].err = TimeLimitError("propagation", frame[c].lastErr)
              /\ frame[c].now >= frame[c].timeout + frame[c].interval
              /\ frame[c].now < frame[c].timeout + 2 * frame[c].interval
                                  + log[c].lastDur

C7_Witness ==
    \E c \in SolveCalls :
        /\ log[c].polled = "failed"
        /\ frame[c].lastErr = Nil
        /\ log[c].checkTime = 0
        /\ frame[c].timeout = 5
        /\ frame[c].interval = 2
        /\ frame[c].now = 8

\* C8: Sequential() returns (true, D) when the Provider exposes the
\* sequential capability with delay D, whatever D, and (false, 0) when it
\* does not.
C8_SequentialReportsCapability ==
    \A c \in Calls :
        (frame[c].op = "Sequential" /\ Done(c)) =>
            /\ (~provider.nil /\ provider.Sequential # << >>) =>
                  /\ frame[c].ret[1] = TRUE
                  /\ frame[c].ret[2] = provider.Sequential[1]
            /\ (provider.nil \/ provider.Sequential = << >>) =>
                  frame[c].ret = << FALSE, 0 >>

C8_Witness ==
    \E c \in Calls :
        /\ frame[c].op = "Sequential"
        /\ Done(c)
        /\ provider.Sequential = << MaxSeqDelay >>
        /\ frame[c].ret = << TRUE, MaxSeqDelay >>

\* the (timeout, interval) the Provider asks for, the defaults without the
\* timeout capability
ExpectedBudget ==
    IF provider.nil \/ provider.Timeout = << >>
    THEN << 60, 2 >>
    ELSE provider.Timeout

\* C9: Solve polls with the (timeout, interval) of the Provider's timeout
\* capability when the Provider exposes it, with 60 s and 2 s otherwise;
\* the sleep before the first check lasts that same interval, and the
\* deadline is that timeout after the end of that sleep.
C9_PollingBudgetFromProviderOrDefaults ==
    \A c \in SolveCalls :
        frame[c].pc \in {"select", "call", "sleep", "validate"} \/ log[c].polled # "" =>
            /\ << frame[c].timeout, frame[c].interval >> = ExpectedBudget
            /\ frame[c].timeUp = ExpectedBudget[2] + ExpectedBudget[1]
            /\ log[c].slept = log[c].sleeps * ExpectedBudget[2]
            /\ log[c].polled = "failed" => frame[c].now >= frame[c].timeUp

C9_Witness ==
    \E c \in SolveCalls :
        /\ log[c].polled = "failed"
        /\ ~provider.nil
        /\ provider.Timeout = << >>
        /\ frame[c].now = 62
        /\ log[c].sleeps = 31

LifecycleCalls == { c \in Calls : frame[c].op \in {"PreSolve", "Solve", "CleanUp"} }

\* C10 as stated, for the errors it names: the error PreSolve returns
\* when Provider.present failed, the error CleanUp returns when
\* Provider.cleanUp failed and the error Solve returns when the polling
\* timed out all carry the domain.
C10_EveryErrorCarriesDomain ==
    \A c \in LifecycleCalls :
        (/\ Done(c)
         /\ frame[c].err # Nil
         /\ log[c].present + log[c].cleanUp > 0 \/ log[c].polled = "failed") =>
            CarriesDomain(frame[c].err, GetTargetedDomain(frame[c].authz))

\* C10, amended: a failure of Provider.present is returned by PreSolve
\* wrapped with the domain, and the errors for a missing DNS-01 challenge
\* and for a missing provider name the domain; a failure of
\* Provider.cleanUp is returned by CleanUp, and a polling timeout by Solve,
\* as it is, with no domain added.
C10_OnlyPresentErrorIsDomainWrapped ==
    \A c \in LifecycleCalls :
        LET f == frame[c]
            domain == GetTargetedDomain(f.authz) IN
        (Done(c) /\ ~f.panic) =>
            /\ (f.op = "PreSolve" /\ log[c].present = 1) =>
                  \/ f.err = Nil
                  \/ /\ CarriesDomain(f.err, domain)
                     /\ f.err = WrapError("acme: error presenting token", domain,
                                          PresentError)
            /\ (f.op = "PreSolve" /\ log[c].keyAuth = 0) =>
                  (f.err # Nil /\ CarriesDomain(f.err, domain))
            /\ FindChallenge(DNS01, f.authz).err # Nil =>
                  (f.err # Nil /\ CarriesDomain(f.err, domain))
            /\ (f.op = "CleanUp" /\ log[c].cleanUp = 1) =>
                  f.err \in {Nil, CleanUpError}
            /\ (f.op = "Solve" /\ log[c].polled = "failed") =>
                  /\ f.err = TimeLimitError("propagation", f.lastErr)
                  /\ ~CarriesDomain(f.err, domain)

C10_Witness ==
    \E c \in LifecycleCalls :
        /\ Done(c)
        /\ frame[c].op = "PreSolve"
        /\ log[c].present = 1
        /\ frame[c].err # Nil
        /\ CarriesDomain(frame[c].err, "a.example.org")

(***************************************************************************)
(* C11                                                                     *)
(***************************************************************************)
\* the challenge name of each domain, written out
ExpectedFQDN ==
    [d \in Domains |->
        IF d = "example.com" THEN "_acme-challenge.example.com."
        ELSE "_acme-challenge.a.example.org."]

\* the calls whose ChallengeInfo is derived
Derived == { c \in Calls : frame[c].info.EffectiveFQDN # "" }

\* C11: the FQDN of a ChallengeInfo is "_acme-challenge." + domain + "." and
\* its Value is the digest of the key authorization, whatever the resolver
\* answers and whatever the environment variable holds: two derivations
\* from the same domain give the same FQDN, two derivations from the same
\* key authorization the same Value
C11_FQDNAndValueDependOnTheirInputOnly ==
    /\ \A c \in Derived :
           /\ frame[c].info.FQDN = ExpectedFQDN[frame[c].authz.Identifier]
           /\ frame[c].info.Value = Sha256Base64(frame[c].keyAuth)
           /\ (Done(c) /\ frame[c].op = "GetChallengeInfo") =>
                  frame[c].ret = frame[c].info
    /\ \A c \in Derived, d \in Derived :
           /\ frame[c].authz.Identifier = frame[d].authz.Identifier =>
                  frame[c].info.FQDN = frame[d].info.FQDN
           /\ frame[c].keyAuth = frame[d].keyAuth =>
                  frame[c].info.Value = frame[d].info.Value

\* two derivations from the same domain and key authorization that the
\* resolver answered differently
C11_Witness ==
    /\ Derived = Calls
    /\ frame["c1"].authz.Identifier = frame["c2"].authz.Identifier
    /\ frame["c1"].keyAuth = frame["c2"].keyAuth
    /\ frame["c1"].info.EffectiveFQDN # frame["c2"].info.EffectiveFQDN
    /\ frame["c1"].info.FQDN = frame["c2"].info.FQDN
    /\ frame["c1"].info.Value = frame["c2"].info.Value

(***************************************************************************)
(* C12                                                                     *)
(***************************************************************************)
\* C12: an error of the precheck does not end the polling of Solve: the loop
\* sleeps and calls the precheck again; the polling ends in success only on
\* a call that reports satisfied, and then the validator is called, errors
\* of earlier calls notwithstanding; an error is returned only once the time
\* limit is reached, and it wraps the last error of the precheck
C12_PrecheckErrorDoesNotEndPolling ==
    \A c \in SolveCalls :
        LET f == frame[c]
            l == log[c] IN
        /\ l.polled = "ok" => l.satisfied = l.preCheck
        /\ (Done(c) /\ l.polled = "ok") => (l.validate = 1 /\ f.waitErr = Nil)
        /\ (Done(c) /\ f.waitErr # Nil) => (l.polled = "failed" /\ f.now >= f.timeUp)
        /\ f.lastErr # Nil =>
              \/ l.polled = "" /\ f.pc \in {"sleep", "select", "call"}
              \/ l.polled = "ok" /\ f.pc \in {"validate", "done"}
              \/ /\ l.polled = "failed"
                 /\ Done(c)
                 /\ f.err = WrapError("propagation: time limit exceeded: last error",
                                      "", PreCheckError)

\* a Solve call whose precheck failed, then reported satisfied before the
\* time limit, and whose validator was called
C12_Witness ==
    \E c \in SolveCalls :
        /\ frame[c].lastErr = PreCheckError
        /\ log[c].polled = "ok"
        /\ log[c].preCheck >= 2
        /\ frame[c].now < frame[c].timeUp
        /\ log[c].validate = 1
        /\ Done(c)

(***************************************************************************)
(* C13                                                                     *)
(***************************************************************************)
\* C13: when a CNAME query fails or is answered with a response code other
\* than success, at the first hop or after some hops, the resolution stops
\* and its result is the name that was being queried; no error comes out of
\* it, and a Solve call goes on to the polling with that name
C13_FailedQueryEndsResolutionAtQueriedName ==
    \A c \in Derived :
        LET f == frame[c]
            l == log[c] IN
        (zone.end \in {"Rcode", "Fail"} /\ ~Disabled) =>
            /\ f.info.EffectiveFQDN = ChainName(zone, zone.len)
            /\ l.queries = zone.len + 1
            /\ l.hops = zone.len
            /\ f.op = "GetChallengeInfo" => (Done(c) /\ f.err = Nil /\ ~f.panic)
            /\ f.op = "Solve" =>
                  /\ f.pc \in {"timeouts", "select", "call", "sleep", "validate", "done"}
                  /\ Done(c) => l.polled # ""
                  /\ l.preCheckArgs \subseteq
                        {<< f.authz.Identifier, ChainName(zone, zone.len), f.info.Value >>}

\* a Solve call whose second CNAME query failed, and whose precheck was
\* called with the name of that query
C13_Witness ==
    \E c \in SolveCalls :
        /\ zone.end = "Fail"
        /\ zone.len = 1
        /\ ~Disabled
        /\ log[c].queries = 2
        /\ log[c].preCheckArgs =
              {<< frame[c].authz.Identifier, Alias(1), frame[c].info.Value >>}

(***************************************************************************)
(* C14                                                                     *)
(***************************************************************************)
\* C14: once the polling of a Solve call has succeeded, the validator is
\* called, once, with the domain and with the dns-01 challenge of the
\* authorization carrying the key authorization the call obtained at its
\* start; what the validator returns, nil or an error, is what Solve returns
C14_ValidatorGetsKeyAuthorizationAndDecides ==
    \A c \in SolveCalls :
        LET f == frame[c]
            l == log[c]
            chlng == FindChallenge("dns-01", f.authz).chlng IN
        /\ l.validate > 0 => l.polled = "ok"
        /\ (l.polled = "ok" /\ f.pc = "validate") => l.validate = 0
        /\ (l.polled = "ok" /\ Done(c)) =>
              /\ l.validate = 1
              /\ f.keyAuth = KeyAuthorizationOf(chlng.Token)
              /\ l.validateArgs =
                    {<< f.authz.Identifier,
                        [Type |-> "dns-01", Token |-> chlng.Token,
                         KeyAuthorization |-> f.keyAuth] >>}
              /\ f.err = l.answer

\* a Solve call whose polling succeeded and whose validator returned an error
C14_Witness ==
    \E c \in SolveCalls :
        /\ log[c].polled = "ok"
        /\ Done(c)
        /\ log[c].validate = 1
        /\ log[c].answer = ValidateError
        /\ frame[c].err = ValidateError
        /\ frame[c].keyAuth = "tok1.thumbprint"

(***************************************************************************)
(* C15                                                                     *)
(***************************************************************************)
\* the k-th precheck call of a Solve starts before the time limit, which is
\* the timeout after the first sleep: (k - 1) * interval < timeout, for the
\* timeout and the interval of the Provider
PollingWithinBudget ==
    \A c \in SolveCalls :
        /\ log[c].preCheck > 0 =>
              (log[c].preCheck - 1) * ExpectedBudget[2] < ExpectedBudget[1]
        /\ log[c].preCheck < MaxPreChecks
        /\ frame[c].pc = "call" => frame[c].now < frame[c].timeUp

\* C15: every Solve call returns, whatever its precheck calls answer, as
\* long as each of them returns: the polling stops by itself once the
\* timeout has elapsed, after no more precheck calls than fit in the timeout
C15_EverySolveReturns ==
    []PollingWithinBudget /\ <>(\A c \in SolveCalls : Done(c))

\* a Solve call that returned because its time limit was reached, after
\* three precheck calls that failed or were unsatisfied
C15_Witness ==
    \E c \in SolveCalls :
        /\ Done(c)
        /\ log[c].polled = "failed"
        /\ log[c].preCheck = 3
        /\ frame[c].now >= frame[c].timeUp

(***************************************************************************)
(* C16                                                                     *)
(***************************************************************************)
\* the calls of PreSolve, Solve and CleanUp for an authorization that holds
\* no dns-01 challenge
CallsWithoutChallenge ==
    { c \in Calls :
        /\ frame[c].op \in {"PreSolve", "Solve", "CleanUp"}
        /\ \A i \in 1..Len(frame[c].authz.Challenges) :
               frame[c].authz.Challenges[i].Type # "dns-01" }

\* C16: for an authorization without dns-01 challenge, PreSolve, Solve and
\* CleanUp return an error, and they return it before any call of
\* GetKeyAuthorization, present, cleanUp, the precheck or the validator,
\* before any query and before any sleep
C16_NoChallengeNoCollaboratorCall ==
    \A c \in CallsWithoutChallenge :
        LET f == frame[c]
            l == log[c] IN
        /\ f.pc \in {"start", "done"}
        /\ Done(c) => (f.err # Nil /\ ~f.panic)
        /\ l.keyAuth = 0 /\ l.present = 0 /\ l.cleanUp = 0
        /\ l.preCheck = 0 /\ l.validate = 0
        /\ l.sleeps = 0 /\ l.slept = 0 /\ f.now = 0
        /\ l.queries = 0 /\ l.derived = 0

\* a CleanUp call that returned an error for an authorization without
\* dns-01 challenge, on a Challenge without provider
C16_Witness ==
    \E c \in CallsWithoutChallenge :
        /\ frame[c].op = "CleanUp"
        /\ provider.nil
        /\ Done(c)
        /\ frame[c].err # Nil
        /\ log[c].keyAuth = 0

(***************************************************************************)
(* C17                                                                     *)
(***************************************************************************)
\* C17: nothing is retried: a PreSolve call calls present at most once, a
\* Solve call the validator at most once, a CleanUp call cleanUp at most
\* once; when that one call returns an error the lifecycle call is over
\* and returns an error to its caller: the error itself from CleanUp and
\* Solve, the error wrapped from PreSolve
C17_OneAttemptAndItsErrorReturned ==
    \A c \in LifecycleCalls :
        LET f == frame[c]
            l == log[c] IN
        /\ l.present <= 1 /\ l.validate <= 1 /\ l.cleanUp <= 1
        /\ l.present + l.validate + l.cleanUp <= 1
        /\ l.present + l.validate + l.cleanUp = 1 =>
              /\ Done(c)
              /\ l.answer = Nil => f.err = Nil
              /\ l.answer # Nil =>
                    /\ f.err # Nil
                    /\ SubSeq(f.err, Len(f.err) - Len(l.answer) + 1, Len(f.err)) = l.answer
                    /\ f.op \in {"Solve", "CleanUp"} => f.err = l.answer
        /\ l.present + l.validate + l.cleanUp = 0 => l.answer = Nil

\* a CleanUp call whose one call of cleanUp failed
C17_Witness ==
    \E c \in LifecycleCalls :
        /\ frame[c].op = "CleanUp"
        /\ Done(c)
        /\ log[c].cleanUp = 1
        /\ log[c].answer = CleanUpError
        /\ frame[c].err = CleanUpError

(***************************************************************************)
(* C18                                                                     *)
(***************************************************************************)
\* C18: a PreSolve call never calls the precheck, never sleeps and never
\* calls the validator; a Solve call never calls present nor cleanUp; a
\* CleanUp call never calls the precheck nor the validator
C18_EachCallKeepsToItsCollaborators ==
    \A c \in LifecycleCalls :
        LET f == frame[c]
            l == log[c] IN
        /\ f.op = "PreSolve" =>
              /\ l.preCheck = 0 /\ l.preCheckArgs = {}
              /\ l.sleeps = 0 /\ l.slept = 0 /\ f.now = 0
              /\ l.validate = 0 /\ l.validateArgs = {}
        /\ f.op = "Solve" => (l.present = 0 /\ l.cleanUp = 0)
        /\ f.op = "CleanUp" =>
              /\ l.preCheck = 0 /\ l.preCheckArgs = {}
              /\ l.validate = 0 /\ l.validateArgs = {}

\* a PreSolve call that presented the record and returned
C18_Witness ==
    \E c \in LifecycleCalls :
        /\ frame[c].op = "PreSolve"
        /\ Done(c)
        /\ log[c].present = 1
        /\ frame[c].err = Nil
        /\ log[c].sleeps = 0

(***************************************************************************)
(* C19                                                                     *)
(***************************************************************************)
\* C19: a Solve call derives its ChallengeInfo once, before its first
\* sleep, and every precheck call of it gets the same domain, the same
\* EffectiveFQDN and the same Value, those of that ChallengeInfo, also when
\* the CNAME records change while the polling goes on
C19_OneChallengeInfoForAllPrechecks ==
    \A c \in SolveCalls :
        LET f == frame[c]
            l == log[c] IN
        /\ l.derived <= 1
        /\ f.pc \in {"start", "resolve"} => (l.sleeps = 0 /\ l.preCheck = 0)
        /\ l.sleeps > 0 => (l.derived = 1 /\ f.info.EffectiveFQDN # "")
        /\ Cardinality(l.preCheckArgs) <= 1
        /\ l.preCheck > 0 =>
              l.preCheckArgs =
                 {<< f.authz.Identifier, f.info.EffectiveFQDN, f.info.Value >>}

\* a Solve call that called the precheck three times with one name, which
\* is no longer the name the records lead to
C19_Witness ==
    \E c \in SolveCalls :
        /\ log[c].preCheck = 3
        /\ Cardinality(log[c].preCheckArgs) = 1
        /\ ~Disabled
        /\ frame[c].info.EffectiveFQDN = Alias(1)
        /\ FollowFrom(zone, frame[c].info.FQDN, 0) = frame[c].info.FQDN

(***************************************************************************)
(* C20                                                                     *)
(***************************************************************************)
\* the polling of a Solve call that runs alone, with the budget of the
\* Provider, and whose precheck calls answer as in answers, from the i-th
\* on: how it ends ("" when the answers run out before), after how many
\* precheck calls, and with which error
RECURSIVE PollingAlone(_, _, _, _)
PollingAlone(answers, i, now, lastErr) ==
    IF now >= ExpectedBudget[2] + ExpectedBudget[1]
    THEN [polled |-> "failed", calls |-> i - 1,
          err |-> TimeLimitError("propagation", lastErr)]
    ELSE IF i > Len(answers)
    THEN [polled |-> "", calls |-> i - 1, err |-> Nil]
    ELSE IF answers[i].ok
    THEN [polled |-> "ok", calls |-> i, err |-> Nil]
    ELSE PollingAlone(answers, i + 1, now + answers[i].d + ExpectedBudget[2],
                      IF answers[i].err # Nil THEN answers[i].err ELSE lastErr)

\* the call did what a Solve call for its authorization does when it runs
\* alone and gets the answers the call got
AsAlone(c) ==
    LET f == frame[c]
        l == log[c]
        domain == f.authz.Identifier
        token == FindChallenge("dns-01", f.authz).chlng.Token
        keyAuth == KeyAuthorizationOf(token)
        name == IF Disabled THEN ExpectedFQDN[domain]
                ELSE FollowFrom(zone, ExpectedFQDN[domain], 0)
        alone == PollingAlone(l.answers, 1, ExpectedBudget[2], Nil) IN
    /\ l.preCheck = Len(l.answers)
    /\ l.preCheck = alone.calls
    /\ l.preCheck > 0 =>
          l.preCheckArgs = {<< domain, name, Sha256Base64(keyAuth) >>}
    /\ l.validate > 0 =>
          l.validateArgs =
             {<< domain, [Type |-> "dns-01", Token |-> token,
                          KeyAuthorization |-> keyAuth] >>}
    /\ (Done(c) /\ l.derived = 0) =>
          (f.err = KeyAuthorizationError /\ l.preCheck = 0 /\ l.validate = 0)
    /\ (Done(c) /\ l.derived = 1) =>
          /\ l.polled = alone.polled
          /\ alone.polled = "failed" => (f.err = alone.err /\ l.validate = 0)
          /\ alone.polled = "ok" => (f.err = l.answer /\ l.validate = 1)
          /\ alone.polled # ""

\* C20: Solve calls that run at once on one Challenge, for different
\* domains, do not interfere: however their steps interleave, each call
\* returns what it returns when it runs alone and gets the same answers,
\* and its precheck and its validator get the arguments they get then;
\* no step changes the Challenge's provider
C20_ConcurrentSolveCallsDoNotInterfere ==
    /\ [][provider' = provider]_vars
    /\ [](\A c \in SolveCalls : AsAlone(c))

\* two Solve calls whose polling went on at once: one ended at its time
\* limit, the other in success, each after precheck calls of its own
C20_Witness ==
    /\ frame["c1"].op = "Solve" /\ frame["c2"].op = "Solve"
    /\ Done("c1") /\ Done("c2")
    /\ log["c1"].polled = "failed" /\ log["c1"].preCheck = 3
    /\ log["c2"].polled = "ok" /\ log["c2"].preCheck = 2
    /\ frame["c1"].info.EffectiveFQDN = Alias(1)
    /\ frame["c2"].info.EffectiveFQDN = "_acme-challenge.a.example.org."
    /\ frame["c2"].err = ValidateError
====
